---------------------------- MODULE Spec2Model ----------------------------
(***************************************************************************)
(* Retention and space reclamation of pebblemq                             *)
(* (internal/mq/mqimpl/pebblemq/server/pebblemq_retention.go).             *)
(*                                                                         *)
(* MetaKV holds three key families per topic,                              *)
(*   page_msg_size/{topic}/{pageID}, page_ts/{topic}/{pageID},             *)
(*   acked_ts/{topic}/{pageID},                                            *)
(* DataKV holds {topic}/{seqID}.  Keys are byte strings; pageIDs are       *)
(* written with strconv.FormatInt(id, 10) and the store orders, scans and  *)
(* range-deletes keys bytewise.  The model keeps the stores as maps over   *)
(* (topic, pageID) and decides every scan order and every range-delete on  *)
(* the encoded keys.                                                       *)
(***************************************************************************)
EXTENDS Integers, Sequences, FiniteSets, TLC

(***************************************************************************)
(* Bounds of the model.                                                    *)
(***************************************************************************)
\* largest pageID the producer creates
MaxPageID == 10
\* number of pages the producer seals per topic
MaxAppends == 2
\* the same under the specifications other than Spec and SpecCrash
MaxStopAppends == 2
\* largest pageID the producer issues under those specifications
MaxStopPageID == 2
\* largest value of the wall clock (unix seconds)
MaxTime == 2
\* number of times initRetentionInfo runs again in the process
MaxInits == 1
\* longest byte string handed to AddOne
MaxLen == 3
\* number of compaction ticks the loop handles
MaxCompactions == 1
\* pages the producer seals, and the largest pageID it issues, under the
\* specification with fairness
MaxLiveAppends == 1
MaxLivePageID == 1
\* largest pageID and seqID of the second topic, and largest pageEndID of a
\* call made beside it
MaxOtherID == 2
\* number of calls made to the IndexNode
MaxJobCalls == 3

(***************************************************************************)
(* Program constants.                                                      *)
(***************************************************************************)
MB == 1024 * 1024

Topics == {"a"}
PageIDs == 0 .. MaxPageID
Times == 0 .. MaxTime
\* value of an absent key: kv.Load returns "" for it
None == -1
\* sizes (bytes) the producer writes under page_msg_size
PageSizes == {MB}
\* the value the writers store where the claims do not read it: "v"
DefaultValue == <<118>>
\* opaque values of the compaction specification: "0" and "z"
Values == {<<48>>, <<122>>}
\* callers of Stop()
Stoppers == {"s1", "s2"}
\* topic names without '/': "a", "ab", "a.", "." and "1"
TopicNames == {<<97>>, <<97, 98>>, <<97, 46>>, <<46>>, <<49>>}
OtherIDs == 0 .. MaxOtherID
\* (clusterID, buildID) of the IndexNode requests
TaskKeys == {<<"c1", 1>>, <<"c1", 2>>}
\* no taskInfo is stored for the key
NoTask == "NoTask"

\* RetentionTimeInMinutes is a float; the model writes it as the numerator
\* of a fraction over MinuteDenom (-5 is -1/120 minute, 10 is one second).
MinuteDenom == 600
RetentionMinuteChoices == {-600, -5, 10}
RetentionSizeChoices == {-1, 0}
\* -1 minute, one second and ten seconds (recheck intervals -6, 0 and 1)
TickMinuteChoices == {-600, 10, 100}

VARIABLES
    now,            \* wall clock, unix seconds
    cfgRetMin,      \* RetentionTimeInMinutes * MinuteDenom
    cfgRetSizeMB,   \* RetentionSizeInMB
    pageSize,       \* MetaKV page_msg_size/{topic}/{p} -> size, None if absent
    pageTs,         \* MetaKV page_ts/{topic}/{p}: the pageIDs present
    ackedTs,        \* MetaKV acked_ts/{topic}/{p} -> ts, None if absent
    data,           \* DataKV {topic}/{p}: the ids present
    lastPage,       \* per topic, the last pageID the producer created
    appends,        \* per topic, number of pages sealed
    sealLimit,      \* number of pages the producer seals per topic
    pageLimit,      \* largest pageID the producer issues
    valueChoices,   \* byte strings the writers store as opaque values
    topicMeta,      \* MetaKV topic_id/{topic} -> its metadata
    dataVal,        \* DataKV {topic}/{id} -> payload, <<>> if absent
    topicMu,        \* per topic, TRUE while the mutex in the registry is held
    lockEntry,      \* per topic, what the registry topicMu holds for it
    lockGen,        \* per topic, number of times the registry entry was replaced
    cleanGen,       \* lockGen of the mutex cleanData holds, or None
    tracker,        \* topicRetetionTime: topic -> last retention time
    loopPc,         \* position of the retention goroutine
    rangeTodo,      \* topics the Range callback has not visited yet
    passTopic,      \* topic of the pass in flight
    timeNow,        \* t.Unix() of the tick being handled
    totalAckedSize, \* local of expiredCleanUp
    pageEndID,      \* local of expiredCleanUp
    passErr,        \* expiredCleanUp returned an error
    errTopic,       \* the topic the returned error names, "" if none
    cleaned,        \* cleanData committed the MetaKV batch in this pass
    closeCh,        \* number of times closeCh was closed
    closeWg,        \* counter of closeWg
    onceDone,       \* closeOnce has run its function
    onceMu,         \* the Stop caller inside closeOnce.Do, "" if none
    stopPc,         \* position of each Stop caller
    openIters,      \* iterators opened by retention() and not closed
    compactions,    \* compaction ticks handled
    scanAcked,      \* pages whose acked_ts the pass in flight found present
    scanU,          \* smallest pageID the pass in flight found unacked, or None
    undisturbed,    \* no write and no clock change since the pass began
    succIn,         \* a byte string handed to AddOne
    succOut,        \* what AddOne returned for it
    succDone,       \* AddOne has returned
    crashE,         \* pageEndID of the cleanData the process crashed in, or None
    topicT,         \* name (bytes) of the topic a retention call is made for
    topicU,         \* name (bytes) of another topic of the same stores
    endT,           \* the pageEndID of that call
    callPc,         \* position of the calls made for topicT
    dataU,          \* DataKV {topicU}/{id}: the ids present
    metaU,          \* MetaKV of topicU: the <<title, pageID>> present
    topicIdU,       \* MetaKV topic_id/{topicU} is present
    readU,          \* pages of topicU a scan made for topicT has read
    taskInfos,      \* IndexNode: task key -> state of its taskInfo, or NoTask
    buildQueue,     \* IndexNode: the task keys in sched.IndexBuildQueue
    jobCalls,       \* IndexNode: number of calls made
    jobCall,        \* IndexNode: the last call, <<operation, key>>
    jobRet,         \* IndexNode: what the last call returned
    queryRet        \* IndexNode: the state the last QueryJobs reported

storeVars == <<pageSize, pageTs, ackedTs, data, lastPage, appends, sealLimit,
               pageLimit, valueChoices, topicMeta, dataVal>>
cfgVars == <<cfgRetMin, cfgRetSizeMB>>
succVars == <<succIn, succOut, succDone>>
otherVars == <<topicT, topicU, endT, callPc, dataU, metaU, topicIdU, readU>>
jobVars == <<taskInfos, buildQueue, jobCalls, jobCall, jobRet, queryRet>>
pureVars == <<succVars, otherVars, jobVars>>
lockVars == <<topicMu, lockEntry, lockGen, cleanGen>>
passVars == <<rangeTodo, passTopic, timeNow, totalAckedSize, pageEndID,
              passErr, errTopic, cleaned>>
stopVars == <<closeCh, closeWg, onceDone, onceMu, stopPc>>
histVars == <<scanAcked, scanU, undisturbed, crashE>>
vars == <<now, cfgVars, pureVars, storeVars, lockVars, tracker, loopPc, passVars,
          stopVars, openIters, compactions, histVars>>

(***************************************************************************)
(* Keys.                                                                   *)
(***************************************************************************)
\* byte of '/'
Slash == 47
\* byte of '0'
Zero == 48

TopicName(t) == IF t = "a" THEN <<97>> ELSE <<97, 98>>

\* "page_msg_size/", "page_ts/", "acked_ts/" as bytes
PageMsgSizeTitle ==
    <<112, 97, 103, 101, 95, 109, 115, 103, 95, 115, 105, 122, 101, 47>>
PageTsTitle == <<112, 97, 103, 101, 95, 116, 115, 47>>
AckedTsTitle == <<97, 99, 107, 101, 100, 95, 116, 115, 47>>

RECURSIVE FormatInt(_)
FormatInt(n) ==
    IF n < 10 THEN <<Zero + n>>
    ELSE FormatInt(n \div 10) \o <<Zero + (n % 10)>>

\* bytes.Compare(a, b) < 0
RECURSIVE LexLess(_, _)
LexLess(a, b) ==
    IF Len(b) = 0 THEN FALSE
    ELSE IF Len(a) = 0 THEN TRUE
    ELSE IF Head(a) # Head(b) THEN Head(a) < Head(b)
    ELSE LexLess(Tail(a), Tail(b))

\* byte of '.'
Dot == 46

\* constructKey(title, topic) on the bytes of the topic name
NameKey(title, name) == title \o name

constructKey(title, t) == NameKey(title, TopicName(t))

\* path.Join(topic, elem) for a topic name without '/' and a non-empty elem:
\* an empty element is ignored and the result is cleaned, so "" and "."
\* give elem alone
PathJoin(name, elem) ==
    IF name = <<>> \/ name = <<Dot>> THEN elem
    ELSE name \o <<Slash>> \o elem

\* a key of a MetaKV family: constructKey(title, topic) + "/" + FormatInt(p)
MetaKey(title, t, p) == constructKey(title, t) \o <<Slash>> \o FormatInt(p)

\* a key of DataKV: path.Join(topic, FormatInt(id))
DataKey(t, id) == PathJoin(TopicName(t), FormatInt(id))

\* "topic_id/" as bytes
TopicIDTitle == <<116, 111, 112, 105, 99, 95, 105, 100, 47>>

\* the maximum byte
MaxByte == 255

\* typeutil.AddOne: the right-most byte is incremented, or a zero byte is
\* appended when it is the maximum byte; a string without a right-most byte
\* is returned as it is
AddOne(s) ==
    IF Len(s) = 0 THEN s
    ELSE IF s[Len(s)] # MaxByte
         THEN [s EXCEPT ![Len(s)] = @ + 1]
         ELSE s \o <<0>>

\* bytes of the strings handed to AddOne: 0x00, '/', 0xFE and the maximum
ByteChoices == {0, Slash, MaxByte - 1, MaxByte}

\* the byte strings of length 1 .. n over ByteChoices
StringsUpTo(n) == UNION {[1 .. k -> ByteChoices] : k \in 1 .. n}

\* s is a prefix of x
HasPrefix(x, s) == Len(s) <= Len(x) /\ SubSeq(x, 1, Len(s)) = s

\* a key is inside the range-delete [lo, hi)
InRange(k, lo, hi) == ~LexLess(k, lo) /\ LexLess(k, hi)


(***************************************************************************)
(* Configuration and the expiry predicates.                                *)
(***************************************************************************)
\* int64(num/den) of Go: the float is truncated toward zero
ToInt64(num, den) ==
    IF num >= 0 THEN num \div den ELSE -((-num) \div den)

\* int64(RetentionTimeInMinutes.GetAsFloat() * 60)
retentionSeconds == ToInt64(cfgRetMin * 60, MinuteDenom)

\* a recheck interval of the whole retention window: the division by 10 is
\* left out
checkTimeWholeWindow == ToInt64(cfgRetMin * 60, MinuteDenom)

\* int64(RetentionTimeInMinutes.GetAsFloat() * 60 / 10)
checkTime == ToInt64(cfgRetMin * 60, MinuteDenom * 10)

msgTimeExpiredCheck(acked, clock) ==
    IF retentionSeconds < 0 THEN FALSE
    ELSE acked + retentionSeconds < clock

msgSizeExpiredCheck(deletedAckedSize, ackedSize) ==
    IF cfgRetSizeMB < 0 THEN FALSE
    ELSE ackedSize - deletedAckedSize > cfgRetSizeMB * MB

(***************************************************************************)
(* Scans of page_msg_size/{topic}/.  ps is the page_msg_size family of the *)
(* topic (pageID -> size or None), ak its acked_ts family.                 *)
(***************************************************************************)
PagesOf(ps) == {p \in PageIDs : ps[p] # None}

\* the keys under the prefix in the order the iterator yields them
RECURSIVE KeyOrder(_, _)
KeyOrder(t, S) ==
    IF S = {} THEN <<>>
    ELSE LET first == CHOOSE p \in S : \A q \in S \ {p} :
                          LexLess(MetaKey(PageMsgSizeTitle, t, p),
                                  MetaKey(PageMsgSizeTitle, t, q))
         IN <<first>> \o KeyOrder(t, S \ {first})

\* the loop of calculateTopicAckedSize from position i with ackedSize = acc
RECURSIVE AckedSizeFrom(_, _, _, _, _)
AckedSizeFrom(ps, ak, order, i, acc) ==
    IF i > Len(order) THEN acc
    ELSE IF ak[order[i]] = None THEN acc
    ELSE AckedSizeFrom(ps, ak, order, i + 1, acc + ps[order[i]])

calculateTopicAckedSize(ps, ak, t) ==
    AckedSizeFrom(ps, ak, KeyOrder(t, PagesOf(ps)), 1, 0)

\* the first loop of expiredCleanUp; st = [i, pageEndID, deletedAckedSize,
\* pageCleaned], i the position of the iterator
RECURSIVE TimePass(_, _, _, _, _)
TimePass(ps, ak, order, clock, st) ==
    IF st.i > Len(order) THEN st
    ELSE LET p == order[st.i] IN
         IF ak[p] = None THEN st
         ELSE IF msgTimeExpiredCheck(ak[p], clock)
              THEN TimePass(ps, ak, order, clock,
                            [i |-> st.i + 1, pageEndID |-> p,
                             deletedAckedSize |-> st.deletedAckedSize + ps[p],
                             pageCleaned |-> st.pageCleaned + 1])
              ELSE st

\* the second loop of expiredCleanUp, on the same iterator
RECURSIVE SizePass(_, _, _, _)
SizePass(ps, order, total, st) ==
    IF st.i > Len(order) THEN st
    ELSE LET p == order[st.i]
             curDeleteSize == st.deletedAckedSize + ps[p]
         IN IF msgSizeExpiredCheck(curDeleteSize, total)
            THEN SizePass(ps, order, total,
                          [i |-> st.i + 1, pageEndID |-> p,
                           deletedAckedSize |-> curDeleteSize,
                           pageCleaned |-> st.pageCleaned + 1])
            ELSE st

\* both loops of expiredCleanUp: the locals when it reaches "pageEndID == 0"
ExpiredScan(ps, ak, t, clock, total) ==
    LET order == KeyOrder(t, PagesOf(ps))
        start == [i |-> 1, pageEndID |-> 0, deletedAckedSize |-> 0,
                  pageCleaned |-> 0]
    IN SizePass(ps, order, total, TimePass(ps, ak, order, clock, start))

(***************************************************************************)
(* Range-deletes of cleanData and DeleteMessages.                          *)
(***************************************************************************)
\* pageID p of a MetaKV family is inside [prefix + "/", prefix + "/" + (E+1))
MetaRangeHit(title, t, p, E) ==
    InRange(MetaKey(title, t, p),
            constructKey(title, t) \o <<Slash>>,
            constructKey(title, t) \o <<Slash>> \o FormatInt(E + 1))

\* id of DataKV is inside [Join(topic, startID), Join(topic, endID + 1))
DataRangeHit(t, id, startID, endID) ==
    InRange(DataKey(t, id), DataKey(t, startID), DataKey(t, endID + 1))

\* DeleteMessages(db, topic, startID, endID): the ids left in DataKV
DeleteMessages(d, t, startID, endID) ==
    {id \in d : ~DataRangeHit(t, id, startID, endID)}

\* the three DeleteRange of cleanData's batch, applied to one family each
CleanPageSize(ps, t, E) ==
    [p \in PageIDs |->
        IF ps[p] # None /\ MetaRangeHit(PageMsgSizeTitle, t, p, E)
        THEN None ELSE ps[p]]

CleanPageTs(pt, t, E) ==
    {p \in pt : ~MetaRangeHit(PageTsTitle, t, p, E)}

CleanAckedTs(ak, t, E) ==
    [p \in PageIDs |->
        IF ak[p] # None /\ MetaRangeHit(AckedTsTitle, t, p, E)
        THEN None ELSE ak[p]]


(***************************************************************************)
(* The compaction tick.  A store is the set of its <<key, value>> pairs.   *)
(***************************************************************************)
\* ri.db
DataPairs ==
    UNION {{<<DataKey(t, id), dataVal[t][id]>> : id \in data[t]} : t \in Topics}

\* ri.kv.DB; the value under page_ts is not modelled: topic_id/{topic} is
\* above every page_ts key, so it is never the value of the last key
MetaPairs ==
    UNION {{<<TopicIDTitle \o TopicName(t), topicMeta[t]>>}
           \cup {<<MetaKey(PageMsgSizeTitle, t, p), FormatInt(pageSize[t][p])>> :
                     p \in PagesOf(pageSize[t])}
           \cup {<<MetaKey(PageTsTitle, t, p), DefaultValue>> : p \in pageTs[t]}
           \cup {<<MetaKey(AckedTsTitle, t, p), FormatInt(ackedTs[t][p])>> :
                     p \in PagesOf(ackedTs[t])}
           : t \in Topics}

\* iter.SeekToLast(): the pair with the greatest key
LastPair(S) == CHOOSE x \in S : \A y \in S : ~LexLess(x[1], y[1])

\* the end key handed to Compact: typeutil.AddOne(string(iter.Value()))
CompactEnd(S) == AddOne(LastPair(S)[2])

\* the Compact calls one compaction tick issues for the store, in order
CompactRequests(S) ==
    IF S = {} THEN <<>>
    ELSE <<[start |-> <<>>, end |-> CompactEnd(S), force |-> TRUE]>>

(***************************************************************************)
(* Initial state: initRetentionInfo has returned, the loop is not started. *)
(***************************************************************************)
InitStore ==
    /\ pageSize = [t \in Topics |-> [p \in PageIDs |-> None]]
    /\ pageTs = [t \in Topics |-> {}]
    /\ ackedTs = [t \in Topics |-> [p \in PageIDs |-> None]]
    /\ data = [t \in Topics |-> {}]
    /\ lastPage = [t \in Topics |-> None]
    /\ appends = [t \in Topics |-> 0]
    /\ dataVal = [t \in Topics |-> [id \in PageIDs |-> <<>>]]

InitPass ==
    /\ rangeTodo = {}
    /\ passTopic = ""
    /\ timeNow = 0
    /\ totalAckedSize = 0
    /\ pageEndID = 0
    /\ passErr = FALSE
    /\ errTopic = ""
    /\ cleaned = FALSE
    /\ scanAcked = {}
    /\ scanU = None
    /\ undisturbed = FALSE

\* no string is handed to AddOne outside the scans
InitSucc ==
    /\ succIn = <<>>
    /\ succOut = <<>>
    /\ succDone = FALSE

\* no call is made for a second topic
InitOther ==
    /\ topicT = <<>>
    /\ topicU = <<>>
    /\ endT = 0
    /\ callPc = "off"
    /\ dataU = {}
    /\ metaU = {}
    /\ topicIdU = FALSE
    /\ readU = {}

\* the IndexNode holds no task and has served no call
InitJobs ==
    /\ taskInfos = [k \in TaskKeys |-> NoTask]
    /\ buildQueue = <<>>
    /\ jobCalls = 0
    /\ jobCall = <<"", <<"", 0>>>>
    /\ jobRet = ""
    /\ queryRet = ""

\* the retentionInfo just built, its loop not started
InitRest ==
    /\ tracker = [t \in Topics |-> 0]
    /\ loopPc = "init"
    /\ InitPass
    /\ closeCh = 0
    /\ closeWg = 0
    /\ onceDone = FALSE
    /\ onceMu = ""
    /\ stopPc = [s \in Stoppers |-> "idle"]
    /\ openIters = 0
    /\ compactions = 0
    /\ crashE = None
    /\ InitJobs

\* everything but the configuration and the producer's budget
InitProcess ==
    /\ now = 0
    /\ InitStore
    /\ topicMu = [t \in Topics |-> FALSE]
    /\ lockGen = [t \in Topics |-> 0]
    /\ cleanGen = None
    /\ lockEntry = [t \in Topics |-> "mutex"]
    /\ InitSucc
    /\ InitOther
    /\ InitRest

Init ==
    /\ cfgRetMin \in RetentionMinuteChoices
    /\ cfgRetSizeMB \in RetentionSizeChoices
    /\ sealLimit = MaxAppends
    /\ pageLimit = MaxPageID
    /\ valueChoices = {DefaultValue}
    /\ topicMeta = [t \in Topics |-> DefaultValue]
    /\ InitProcess

(***************************************************************************)
(* The environment: the clock, the producer and the consumer.  Both writers*)
(* hold the topic mutex while they write.                                  *)
(***************************************************************************)
ClockTick ==
    /\ now < MaxTime
    /\ now' = now + 1
    /\ undisturbed' = FALSE
    /\ UNCHANGED <<cfgVars, pureVars, storeVars, lockVars, tracker, loopPc, passVars,
                   stopVars, openIters, compactions, scanAcked, scanU, crashE>>

\* the producer seals page p of topic t: page_msg_size, page_ts and the data
SealPage(t, p, size) ==
    /\ ~topicMu[t]
    /\ appends[t] < sealLimit
    /\ p > lastPage[t]
    /\ p <= pageLimit
    /\ pageSize' = [pageSize EXCEPT ![t][p] = size]
    /\ pageTs' = [pageTs EXCEPT ![t] = @ \cup {p}]
    /\ data' = [data EXCEPT ![t] = @ \cup {p}]
    /\ \E v \in valueChoices : dataVal' = [dataVal EXCEPT ![t][p] = v]
    /\ lastPage' = [lastPage EXCEPT ![t] = p]
    /\ appends' = [appends EXCEPT ![t] = @ + 1]
    /\ undisturbed' = FALSE
    /\ crashE' = None
    /\ UNCHANGED <<now, cfgVars, pureVars, ackedTs, sealLimit, pageLimit, valueChoices,
                   topicMeta, lockVars,
                   tracker, loopPc,
                   passVars, stopVars, openIters, compactions, scanAcked,
                   scanU>>

\* every message of page p is acknowledged: acked_ts/{t}/{p} is written
AckPage(t, p) ==
    /\ ~topicMu[t]
    /\ pageSize[t][p] # None
    /\ ackedTs[t][p] = None
    /\ ackedTs' = [ackedTs EXCEPT ![t][p] = now]
    /\ undisturbed' = FALSE
    /\ UNCHANGED <<now, cfgVars, pureVars, pageSize, pageTs, data, lastPage, appends,
                   sealLimit, pageLimit, valueChoices, topicMeta, dataVal,
                   lockVars, tracker, loopPc, passVars,
                   stopVars,
                   openIters, compactions, scanAcked, scanU, crashE>>


(***************************************************************************)
(* The retention goroutine.                                                *)
(***************************************************************************)
\* startRetentionInfo: closeWg.Add(1); go ri.retention()
startRetentionInfo ==
    /\ loopPc = "init"
    /\ closeWg' = closeWg + 1
    /\ loopPc' = "select"
    /\ UNCHANGED <<now, cfgVars, pureVars, storeVars, lockVars, tracker, passVars,
                   closeCh, onceDone, onceMu, stopPc, openIters, compactions,
                   histVars>>

\* a return on closeCh whose deferred closeWg.Done() is missing
LoopExitNoDone ==
    /\ loopPc = "select"
    /\ closeCh > 0
    /\ loopPc' = "exited"
    /\ openIters' = 0
    /\ UNCHANGED <<now, cfgVars, pureVars, storeVars, lockVars, tracker, passVars,
                   closeCh, closeWg, onceDone, onceMu, stopPc, compactions,
                   histVars>>

\* case <-ri.closeCh: return nil; the deferred calls close the iterators of
\* the compaction ticks and run closeWg.Done()
LoopExit ==
    /\ loopPc = "select"
    /\ closeCh > 0
    /\ loopPc' = "exited"
    /\ closeWg' = closeWg - 1
    /\ openIters' = 0
    /\ UNCHANGED <<now, cfgVars, pureVars, storeVars, lockVars, tracker, passVars,
                   closeCh, onceDone, onceMu, stopPc, compactions, histVars>>

\* case <-compactionTicker.C: two iterators are opened, their Close deferred
\* to the return of retention(); the Compact calls run in goroutines
CompactionTick ==
    /\ loopPc = "select"
    /\ compactions < MaxCompactions
    /\ compactions' = compactions + 1
    /\ openIters' = openIters + 2
    /\ UNCHANGED <<now, cfgVars, pureVars, storeVars, lockVars, tracker, loopPc, passVars,
                   stopVars, histVars>>

\* case t := <-ticker.C: timeNow := t.Unix(); ri.mutex.RLock(); Range(...)
RetentionTick ==
    /\ loopPc = "select"
    /\ timeNow' = now
    /\ rangeTodo' = Topics
    /\ loopPc' = "range"
    /\ UNCHANGED <<now, cfgVars, pureVars, storeVars, lockVars, tracker, passTopic,
                   totalAckedSize, pageEndID, passErr, errTopic, cleaned, stopVars,
                   openIters, compactions, histVars>>

\* the Range callback reaches topic t
RangeVisit(t) ==
    /\ loopPc = "range"
    /\ t \in rangeTodo
    /\ IF tracker[t] + checkTime < timeNow
       THEN /\ loopPc' = "calc"
            /\ passTopic' = t
            /\ undisturbed' = TRUE
            /\ UNCHANGED rangeTodo
       ELSE /\ rangeTodo' = rangeTodo \ {t}
            /\ UNCHANGED <<loopPc, passTopic, undisturbed>>
    /\ UNCHANGED <<now, cfgVars, pureVars, storeVars, lockVars, tracker, timeNow,
                   totalAckedSize, pageEndID, passErr, errTopic, cleaned, stopVars,
                   openIters, compactions, scanAcked, scanU, crashE>>

\* Range has visited every topic: ri.mutex.RUnlock(), back to the select
RangeDone ==
    /\ loopPc = "range"
    /\ rangeTodo = {}
    /\ loopPc' = "select"
    /\ timeNow' = 0
    /\ UNCHANGED <<now, cfgVars, pureVars, storeVars, lockVars, tracker, rangeTodo,
                   passTopic, totalAckedSize, pageEndID, passErr, errTopic, cleaned,
                   stopVars, openIters, compactions, histVars>>


(***************************************************************************)
(* expiredCleanUp(passTopic) and cleanData, one step per KV round.         *)
(***************************************************************************)
\* the numerically smallest page of the topic without acked_ts, or None
FirstUnacked(ps, ak) ==
    LET un == {p \in PagesOf(ps) : ak[p] = None}
    IN IF un = {} THEN None ELSE CHOOSE p \in un : \A q \in un : p <= q

\* totalAckedSize, err := ri.calculateTopicAckedSize(topic), and the quick
\* path "totalAckedSize == 0"
CalcAckedSize ==
    /\ loopPc = "calc"
    /\ LET total == calculateTopicAckedSize(pageSize[passTopic],
                                            ackedTs[passTopic], passTopic)
       IN /\ totalAckedSize' = total
          /\ loopPc' = IF total = 0 THEN "pass_ret" ELSE "scan"
    /\ UNCHANGED <<now, cfgVars, pureVars, storeVars, lockVars, tracker, rangeTodo,
                   passTopic, timeNow, pageEndID, passErr, errTopic, cleaned, stopVars,
                   openIters, compactions, histVars>>

\* a read of MetaKV fails (iterator or Load): expiredCleanUp returns the error
ReadFail ==
    /\ loopPc \in {"calc", "scan"}
    /\ passErr' = TRUE
    /\ errTopic' = ""
    /\ loopPc' = "pass_ret"
    /\ UNCHANGED <<now, cfgVars, pureVars, storeVars, lockVars, tracker, rangeTodo,
                   passTopic, timeNow, totalAckedSize, pageEndID, cleaned,
                   stopVars, openIters, compactions, histVars>>

\* the two loops over page_msg_size/{topic}/ and the test "pageEndID == 0"
ScanPages ==
    /\ loopPc = "scan"
    /\ LET ps == pageSize[passTopic]
           ak == ackedTs[passTopic]
           st == ExpiredScan(ps, ak, passTopic, now, totalAckedSize)
       IN /\ pageEndID' = st.pageEndID
          /\ loopPc' = IF st.pageEndID = 0 THEN "pass_ret" ELSE "clean_lock"
          /\ scanAcked' = {p \in PagesOf(ps) : ak[p] # None}
          /\ scanU' = FirstUnacked(ps, ak)
    /\ UNCHANGED <<now, cfgVars, pureVars, storeVars, lockVars, tracker, rangeTodo,
                   passTopic, timeNow, totalAckedSize, passErr, errTopic, cleaned,
                   stopVars, openIters, compactions, undisturbed, crashE>>

\* the deferred lock.Unlock(): it releases the mutex cleanData locked, which
\* is the one in the registry unless the entry was replaced meanwhile
Unlock(t) ==
    IF cleanGen = lockGen[t] THEN [topicMu EXCEPT ![t] = FALSE] ELSE topicMu

\* a cleanData that runs DeleteMessages ahead of the registry lookup, so the
\* lookup error is returned with DataKV already range-deleted
LockLookupFailAfterDelete ==
    /\ loopPc = "clean_lock"
    /\ lockEntry[passTopic] # "mutex"
    /\ data' = [data EXCEPT ![passTopic] =
                   DeleteMessages(@, passTopic, 0, pageEndID)]
    /\ dataVal' = [dataVal EXCEPT ![passTopic] =
                      [id \in PageIDs |->
                          IF DataRangeHit(passTopic, id, 0, pageEndID)
                          THEN <<>> ELSE @[id]]]
    /\ passErr' = TRUE
    /\ errTopic' = passTopic
    /\ loopPc' = "pass_ret"
    /\ UNCHANGED <<now, cfgVars, pureVars, pageSize, pageTs, ackedTs, lastPage,
                   appends, sealLimit, pageLimit, valueChoices, topicMeta,
                   lockVars, tracker, rangeTodo, passTopic, timeNow,
                   totalAckedSize, pageEndID, cleaned, stopVars, openIters,
                   compactions, histVars>>

\* cleanData: topicMu.Load(topic) finds no entry, or one that is not a
\* *sync.Mutex: the error naming the topic is returned before any delete
LockLookupFail ==
    /\ loopPc = "clean_lock"
    /\ lockEntry[passTopic] # "mutex"
    /\ passErr' = TRUE
    /\ errTopic' = passTopic
    /\ loopPc' = "pass_ret"
    /\ UNCHANGED <<now, cfgVars, pureVars, storeVars, lockVars, tracker, rangeTodo,
                   passTopic, timeNow, totalAckedSize, pageEndID, cleaned,
                   stopVars, openIters, compactions, histVars>>

\* a cleanData that goes on to delete without lock.Lock()
CleanNoLock ==
    /\ loopPc = "clean_lock"
    /\ lockEntry[passTopic] = "mutex"
    /\ cleanGen' = None
    /\ loopPc' = "clean_data"
    /\ UNCHANGED <<now, cfgVars, pureVars, storeVars, topicMu, lockEntry,
                   lockGen, tracker, passVars, stopVars, openIters,
                   compactions, histVars>>

\* cleanData: the batch is built, then lock.Lock() on the topic's mutex
CleanLock ==
    /\ loopPc = "clean_lock"
    /\ lockEntry[passTopic] = "mutex"
    /\ ~topicMu[passTopic]
    /\ topicMu' = [topicMu EXCEPT ![passTopic] = TRUE]
    /\ cleanGen' = lockGen[passTopic]
    /\ loopPc' = "clean_data"
    /\ UNCHANGED <<lockEntry, lockGen>>
    /\ UNCHANGED <<now, cfgVars, pureVars, storeVars, tracker, passVars, stopVars,
                   openIters, compactions, histVars>>

\* DeleteMessages(ri.db, topic, 0, pageEndID) commits its batch
CleanDeleteMessages ==
    /\ loopPc = "clean_data"
    /\ data' = [data EXCEPT ![passTopic] =
                   DeleteMessages(@, passTopic, 0, pageEndID)]
    /\ dataVal' = [dataVal EXCEPT ![passTopic] =
                      [id \in PageIDs |->
                          IF DataRangeHit(passTopic, id, 0, pageEndID)
                          THEN <<>> ELSE @[id]]]
    /\ loopPc' = "clean_meta"
    /\ UNCHANGED <<now, cfgVars, pureVars, pageSize, pageTs, ackedTs, lastPage, appends,
                   sealLimit, pageLimit, valueChoices, topicMeta, lockVars,
                   tracker, passVars, stopVars,
                   openIters,
                   compactions, histVars>>

\* DeleteMessages or writeBatch.Commit fails: cleanData returns the error,
\* the deferred lock.Unlock() runs
CommitFail ==
    /\ loopPc \in {"clean_data", "clean_meta"}
    /\ passErr' = TRUE
    /\ errTopic' = ""
    /\ topicMu' = Unlock(passTopic)
    /\ cleanGen' = None
    /\ UNCHANGED <<lockEntry, lockGen>>
    /\ loopPc' = "pass_ret"
    /\ UNCHANGED <<now, cfgVars, pureVars, storeVars, tracker, rangeTodo, passTopic,
                   timeNow, totalAckedSize, pageEndID, cleaned, stopVars,
                   openIters, compactions, histVars>>

\* writeBatch.Commit: the three DeleteRange take effect together; cleanData
\* returns nil and the deferred lock.Unlock() runs
CleanCommit ==
    /\ loopPc = "clean_meta"
    /\ pageSize' = [pageSize EXCEPT ![passTopic] =
                       CleanPageSize(@, passTopic, pageEndID)]
    /\ pageTs' = [pageTs EXCEPT ![passTopic] =
                     CleanPageTs(@, passTopic, pageEndID)]
    /\ ackedTs' = [ackedTs EXCEPT ![passTopic] =
                      CleanAckedTs(@, passTopic, pageEndID)]
    /\ cleaned' = TRUE
    /\ topicMu' = Unlock(passTopic)
    /\ cleanGen' = None
    /\ UNCHANGED <<lockEntry, lockGen>>
    /\ loopPc' = "pass_ret"
    /\ UNCHANGED <<now, cfgVars, pureVars, data, lastPage, appends, sealLimit,
                   pageLimit, valueChoices, topicMeta, dataVal, tracker,
                   rangeTodo, passTopic, timeNow, totalAckedSize, pageEndID,
                   passErr, errTopic, stopVars, openIters, compactions, histVars>>

\* a tracker entry set to the time the next check is due
TrackerDueTime(err) == [tracker EXCEPT ![passTopic] = timeNow + checkTime]

\* the tracker entry written when expiredCleanUp has returned err
TrackerAfterPass(err) == [tracker EXCEPT ![passTopic] = timeNow]

\* expiredCleanUp has returned: the error is logged, the tracker entry is
\* written, the callback returns true
PassReturn ==
    /\ loopPc = "pass_ret"
    /\ tracker' = TrackerAfterPass(passErr)
    /\ rangeTodo' = rangeTodo \ {passTopic}
    /\ loopPc' = "range"
    /\ passTopic' = ""
    /\ totalAckedSize' = 0
    /\ pageEndID' = 0
    /\ passErr' = FALSE
    /\ errTopic' = ""
    /\ cleaned' = FALSE
    /\ scanAcked' = {}
    /\ scanU' = None
    /\ undisturbed' = FALSE
    /\ UNCHANGED <<now, cfgVars, pureVars, storeVars, lockVars, timeNow, stopVars,
                   openIters, compactions, crashE>>


(***************************************************************************)
(* Stop(): ri.closeOnce.Do(func() { close(ri.closeCh); ri.closeWg.Wait() })*)
(* sync.Once: a caller that finds done set returns at once; otherwise it   *)
(* takes the mutex of the Once, runs the function if done is still unset,  *)
(* sets done and releases the mutex.                                       *)
(***************************************************************************)
\* a Once that forgets it has run: every caller runs the function again
OnceNeverDone == FALSE

\* a Wait that does not wait for closeWg.Done()
WaitReturnsNoJoin == TRUE

\* closeOnce has already run its function
OnceIsDone == onceDone

\* ri.closeWg.Wait() returns
WaitReturns == closeWg = 0

StopCall(s) ==
    /\ stopPc[s] = "idle"
    /\ loopPc # "init"
    /\ stopPc' = [stopPc EXCEPT ![s] = IF OnceIsDone THEN "returned"
                                       ELSE "locking"]
    /\ UNCHANGED <<now, cfgVars, pureVars, storeVars, lockVars, tracker, loopPc, passVars,
                   closeCh, closeWg, onceDone, onceMu, openIters, compactions,
                   histVars>>

StopEnterOnce(s) ==
    /\ stopPc[s] = "locking"
    /\ onceMu = ""
    /\ IF OnceIsDone
       THEN /\ stopPc' = [stopPc EXCEPT ![s] = "returned"]
            /\ UNCHANGED <<closeCh, onceMu>>
       ELSE /\ closeCh' = closeCh + 1
            /\ onceMu' = s
            /\ stopPc' = [stopPc EXCEPT ![s] = "waiting"]
    /\ UNCHANGED <<now, cfgVars, pureVars, storeVars, lockVars, tracker, loopPc, passVars,
                   closeWg, onceDone, openIters, compactions, histVars>>

StopReturn(s) ==
    /\ stopPc[s] = "waiting"
    /\ WaitReturns
    /\ onceDone' = TRUE
    /\ onceMu' = ""
    /\ stopPc' = [stopPc EXCEPT ![s] = "returned"]
    /\ UNCHANGED <<now, cfgVars, pureVars, storeVars, lockVars, tracker, loopPc, passVars,
                   closeCh, closeWg, openIters, compactions, histVars>>

(***************************************************************************)
(* A crash inside cleanData, after DeleteMessages has committed and before *)
(* the MetaKV batch is committed, followed by the restart: the stores      *)
(* survive, initRetentionInfo seeds the tracker and the topic mutexes,     *)
(* startRetentionInfo starts a new loop.                                   *)
(***************************************************************************)
CrashInCleanData ==
    /\ loopPc = "clean_meta"
    /\ crashE = None
    /\ crashE' = pageEndID
    /\ tracker' = [t \in Topics |-> now]
    /\ topicMu' = [t \in Topics |-> FALSE]
    /\ lockEntry' = [t \in Topics |-> "mutex"]
    /\ lockGen' = [t \in Topics |-> 0]
    /\ cleanGen' = None
    /\ loopPc' = "select"
    /\ rangeTodo' = {}
    /\ passTopic' = ""
    /\ timeNow' = 0
    /\ totalAckedSize' = 0
    /\ pageEndID' = 0
    /\ passErr' = FALSE
    /\ errTopic' = ""
    /\ cleaned' = FALSE
    /\ scanAcked' = {}
    /\ scanU' = None
    /\ undisturbed' = FALSE
    /\ UNCHANGED <<now, cfgVars, pureVars, storeVars, stopVars, openIters, compactions>>

\* initRetentionInfo runs again in the same process (a second queue over the
\* same package-level registry): topicMu.Store(topic, new(sync.Mutex)) for
\* every topic; the tracker it seeds belongs to the new retentionInfo
ReinitRetentionInfo ==
    /\ \A t \in Topics : lockGen[t] < MaxInits
    /\ lockGen' = [t \in Topics |-> lockGen[t] + 1]
    /\ lockEntry' = [t \in Topics |-> "mutex"]
    /\ topicMu' = [t \in Topics |-> FALSE]
    /\ UNCHANGED <<now, cfgVars, pureVars, storeVars, cleanGen, tracker, loopPc,
                   passVars, stopVars, openIters, compactions, histVars>>

\* typeutil.AddOne(succIn) is called and returns
ApplyAddOne ==
    /\ ~succDone
    /\ succIn # <<>>
    /\ succOut' = AddOne(succIn)
    /\ succDone' = TRUE
    /\ UNCHANGED <<now, cfgVars, succIn, otherVars, jobVars, storeVars, lockVars, tracker,
                   loopPc, passVars, stopVars, openIters, compactions,
                   histVars>>

(***************************************************************************)
(* Calls made for topicT on stores that also hold topicU.  The three       *)
(* MetaKV families of topicU are kept as <<title, pageID>> pairs.          *)
(***************************************************************************)
Titles == {PageMsgSizeTitle, PageTsTitle, AckedTsTitle}

\* a key of a MetaKV family of the topic of that name
NameMetaKey(title, name, p) ==
    NameKey(title, name) \o <<Slash>> \o FormatInt(p)

\* the key is inside the DeleteRange cleanData(name, E) stages for the family
NameRangeHit(k, title, name, E) ==
    InRange(k, NameKey(title, name) \o <<Slash>>,
               NameKey(title, name) \o <<Slash>> \o FormatInt(E + 1))

\* the key is inside the bounds of the iterator the scans of the topic open:
\* Seek(pageMsgPrefix), UpperBound AddOne(pageMsgPrefix)
NameScanHit(k, name) ==
    InRange(k, NameKey(PageMsgSizeTitle, name) \o <<Slash>>,
               AddOne(NameKey(PageMsgSizeTitle, name) \o <<Slash>>))

\* calculateTopicAckedSize(topicT) and the loops of expiredCleanUp(topicT)
\* iterate: the pages of topicU their iterator yields
CallScan ==
    /\ callPc = "start"
    /\ readU' = {p \in OtherIDs :
                    /\ <<PageMsgSizeTitle, p>> \in metaU
                    /\ NameScanHit(NameMetaKey(PageMsgSizeTitle, topicU, p),
                                   topicT)}
    /\ callPc' = "scanned"
    /\ UNCHANGED <<now, cfgVars, succVars, topicT, topicU, endT, dataU, metaU,
                   topicIdU, jobVars, storeVars, lockVars, tracker, loopPc, passVars,
                   stopVars, openIters, compactions, histVars>>

\* DeleteMessages(ri.db, topicT, 0, endT) commits its DeleteRange
CallDeleteMessages ==
    /\ callPc = "scanned"
    /\ dataU' = {id \in dataU :
                    ~InRange(PathJoin(topicU, FormatInt(id)),
                             PathJoin(topicT, FormatInt(0)),
                             PathJoin(topicT, FormatInt(endT + 1)))}
    /\ callPc' = "deleted"
    /\ UNCHANGED <<now, cfgVars, succVars, topicT, topicU, endT, metaU,
                   topicIdU, readU, jobVars, storeVars, lockVars, tracker, loopPc,
                   passVars, stopVars, openIters, compactions, histVars>>

\* cleanData(topicT, endT) commits its batch of three DeleteRange
CallCleanData ==
    /\ callPc = "deleted"
    /\ metaU' = {x \in metaU :
                    \A title \in Titles :
                        ~NameRangeHit(NameMetaKey(x[1], topicU, x[2]),
                                      title, topicT, endT)}
    /\ topicIdU' = (topicIdU /\ \A title \in Titles :
                        ~NameRangeHit(NameKey(TopicIDTitle, topicU),
                                      title, topicT, endT))
    /\ callPc' = "done"
    /\ UNCHANGED <<now, cfgVars, succVars, topicT, topicU, endT, dataU, readU,
                   jobVars, storeVars, lockVars, tracker, loopPc, passVars, stopVars,
                   openIters, compactions, histVars>>

(***************************************************************************)
(* IndexNode job calls (indexnode service).  i.tasks is kept as taskInfos, *)
(* the scheduler queue as buildQueue.                                      *)
(***************************************************************************)
\* i.loadOrStoreTask(clusterID, buildID, info): the info already stored for
\* the key, or NoTask after storing the new one
loadOrStoreTask(infos, k) == infos[k]

StoredAfterLoadOrStore(infos, k) ==
    IF infos[k] = NoTask THEN [infos EXCEPT ![k] = "InProgress"] ELSE infos

\* i.deleteTaskInfos(ctx, keys): the infos of the keys are removed
deleteTaskInfos(infos, keys) ==
    [k \in TaskKeys |-> IF k \in keys THEN NoTask ELSE infos[k]]

\* CreateJob(req): the node is healthy or not, NewChunkManager and Enqueue
\* succeed or fail
CreateJob(k, healthy, cmOk, enqOk) ==
    /\ jobCalls < MaxJobCalls
    /\ jobCalls' = jobCalls + 1
    /\ jobCall' = <<"CreateJob", k>>
    /\ queryRet' = queryRet
    /\ IF ~healthy
       THEN /\ jobRet' = "ServiceNotReady"
            /\ UNCHANGED <<taskInfos, buildQueue>>
       ELSE IF loadOrStoreTask(taskInfos, k) # NoTask
       THEN /\ jobRet' = "BuildIndexError: duplicated index build task"
            /\ UNCHANGED <<taskInfos, buildQueue>>
       ELSE IF ~cmOk
       THEN /\ taskInfos' =
                   deleteTaskInfos(StoredAfterLoadOrStore(taskInfos, k), {k})
            /\ jobRet' = "BuildIndexError: create chunk manager failed"
            /\ UNCHANGED buildQueue
       ELSE IF ~enqOk
       THEN /\ taskInfos' = StoredAfterLoadOrStore(taskInfos, k)
            /\ jobRet' = "UnexpectedError"
            /\ UNCHANGED buildQueue
       ELSE /\ taskInfos' = StoredAfterLoadOrStore(taskInfos, k)
            /\ buildQueue' = Append(buildQueue, k)
            /\ jobRet' = "Success"
    /\ UNCHANGED <<now, cfgVars, succVars, otherVars, storeVars, lockVars,
                   tracker, loopPc, passVars, stopVars, openIters, compactions,
                   histVars>>

\* the state QueryJobs reports for the key
QueryState(infos, k) ==
    IF infos[k] = NoTask THEN "IndexStateNone" ELSE infos[k]

\* QueryJobs(req) for one buildID
QueryJobs(k) ==
    /\ jobCalls < MaxJobCalls
    /\ jobCalls' = jobCalls + 1
    /\ jobCall' = <<"QueryJobs", k>>
    /\ jobRet' = "Success"
    /\ queryRet' = QueryState(taskInfos, k)
    /\ UNCHANGED <<taskInfos, buildQueue>>
    /\ UNCHANGED <<now, cfgVars, succVars, otherVars, storeVars, lockVars,
                   tracker, loopPc, passVars, stopVars, openIters, compactions,
                   histVars>>

\* DropJobs(req) for the buildIDs of keys: the infos are deleted, their
\* contexts cancelled
DropJobs(keys) ==
    /\ jobCalls < MaxJobCalls
    /\ jobCalls' = jobCalls + 1
    /\ jobCall' = <<"DropJobs", <<"", 0>>>>
    /\ jobRet' = "Success"
    /\ taskInfos' = deleteTaskInfos(taskInfos, keys)
    /\ UNCHANGED <<buildQueue, queryRet>>
    /\ UNCHANGED <<now, cfgVars, succVars, otherVars, storeVars, lockVars,
                   tracker, loopPc, passVars, stopVars, openIters, compactions,
                   histVars>>

(***************************************************************************)
(* Specifications.                                                         *)
(***************************************************************************)
Env ==
    \/ ClockTick
    \/ \E t \in Topics, p \in PageIDs, size \in PageSizes : SealPage(t, p, size)
    \/ \E t \in Topics, p \in PageIDs : AckPage(t, p)

Pass ==
    \/ RetentionTick
    \/ \E t \in Topics : RangeVisit(t)
    \/ RangeDone
    \/ CalcAckedSize
    \/ ReadFail
    \/ ScanPages
    \/ CleanLock
    \/ CleanDeleteMessages
    \/ CommitFail
    \/ CleanCommit
    \/ PassReturn

Lifecycle ==
    \/ CompactionTick
    \/ LoopExit
    \/ \E s \in Stoppers : StopCall(s)
    \/ \E s \in Stoppers : StopEnterOnce(s)
    \/ \E s \in Stoppers : StopReturn(s)

\* every step of the retention goroutine
LoopStep == Pass \/ CompactionTick \/ LoopExit

\* the retention loop with producer, consumer and clock
Next == startRetentionInfo \/ Env \/ Pass

Spec == Init /\ [][Next]_vars

\* the same with Stop() callers and compaction ticks
NextStop == startRetentionInfo \/ Env \/ Pass \/ Lifecycle

\* one configuration, both policies enabled: 0 minutes and 0 MB
InitStop ==
    /\ cfgRetMin = 0
    /\ cfgRetSizeMB = 0
    /\ sealLimit = MaxStopAppends
    /\ pageLimit = MaxStopPageID
    /\ valueChoices = {DefaultValue}
    /\ topicMeta = [t \in Topics |-> DefaultValue]
    /\ InitProcess

SpecStop == InitStop /\ [][NextStop]_vars

\* the loop with compaction ticks; payloads and topic metadata vary
InitCompact ==
    /\ cfgRetMin = 0
    /\ cfgRetSizeMB = 0
    /\ sealLimit = MaxStopAppends
    /\ pageLimit = MaxStopPageID
    /\ valueChoices = Values
    /\ topicMeta \in [Topics -> Values]
    /\ InitProcess

NextCompact == startRetentionInfo \/ Env \/ Pass \/ CompactionTick

SpecCompact == InitCompact /\ [][NextCompact]_vars

\* what the registry can hold for a topic when cleanData looks it up
LockEntries == {"mutex", "absent", "other"}

\* the loop over a registry that other code of the package writes too
InitLock ==
    /\ cfgRetMin = 0
    /\ cfgRetSizeMB = 0
    /\ sealLimit = MaxStopAppends
    /\ pageLimit = MaxStopPageID
    /\ valueChoices = {DefaultValue}
    /\ topicMeta = [t \in Topics |-> DefaultValue]
    /\ now = 0
    /\ InitStore
    /\ topicMu = [t \in Topics |-> FALSE]
    /\ lockEntry \in [Topics -> LockEntries]
    /\ lockGen = [t \in Topics |-> 0]
    /\ cleanGen = None
    /\ InitSucc
    /\ InitOther
    /\ InitRest

NextLock ==
    startRetentionInfo \/ Env \/ Pass \/ LockLookupFail \/ ReinitRetentionInfo

SpecLock == InitLock /\ [][NextLock]_vars

\* the loop under negative, zero and positive recheck intervals
InitTick ==
    /\ cfgRetMin \in TickMinuteChoices
    /\ cfgRetSizeMB = 0
    /\ sealLimit = MaxStopAppends
    /\ pageLimit = MaxStopPageID
    /\ valueChoices = {DefaultValue}
    /\ topicMeta = [t \in Topics |-> DefaultValue]
    /\ InitProcess

SpecTick == InitTick /\ [][Next]_vars

\* AddOne applied to every non-empty byte string of the bounded alphabet
InitAddOne ==
    /\ cfgRetMin = 0
    /\ cfgRetSizeMB = 0
    /\ sealLimit = MaxStopAppends
    /\ pageLimit = MaxStopPageID
    /\ valueChoices = {DefaultValue}
    /\ topicMeta = [t \in Topics |-> DefaultValue]
    /\ now = 0
    /\ InitStore
    /\ topicMu = [t \in Topics |-> FALSE]
    /\ lockEntry = [t \in Topics |-> "mutex"]
    /\ lockGen = [t \in Topics |-> 0]
    /\ cleanGen = None
    /\ succIn \in StringsUpTo(MaxLen)
    /\ succOut = <<>>
    /\ succDone = FALSE
    /\ InitOther
    /\ InitRest

SpecAddOne == InitAddOne /\ [][ApplyAddOne]_vars

\* two topics of distinct names; every key of topicU with an id in OtherIDs
\* is present, and the calls of a pass are made for topicT
InitTwoTopics ==
    /\ cfgRetMin = 0
    /\ cfgRetSizeMB = 0
    /\ sealLimit = MaxStopAppends
    /\ pageLimit = MaxStopPageID
    /\ valueChoices = {DefaultValue}
    /\ topicMeta = [t \in Topics |-> DefaultValue]
    /\ now = 0
    /\ InitStore
    /\ topicMu = [t \in Topics |-> FALSE]
    /\ lockEntry = [t \in Topics |-> "mutex"]
    /\ lockGen = [t \in Topics |-> 0]
    /\ cleanGen = None
    /\ InitSucc
    /\ topicT \in TopicNames
    /\ topicU \in TopicNames \ {topicT}
    /\ endT \in OtherIDs
    /\ callPc = "start"
    /\ dataU = OtherIDs
    /\ metaU = Titles \X OtherIDs
    /\ topicIdU = TRUE
    /\ readU = {}
    /\ InitRest

NextTwoTopics == CallScan \/ CallDeleteMessages \/ CallCleanData

SpecTwoTopics == InitTwoTopics /\ [][NextTwoTopics]_vars

\* the IndexNode serving CreateJob, QueryJobs and DropJobs calls
NextJobs ==
    \/ \E k \in TaskKeys, healthy, cmOk, enqOk \in BOOLEAN :
           CreateJob(k, healthy, cmOk, enqOk)
    \/ \E k \in TaskKeys : QueryJobs(k)
    \/ \E keys \in SUBSET TaskKeys : DropJobs(keys)

\* the retention loop is not started beside it
SpecJobs == InitStop /\ [][NextJobs]_vars

\* the same with a crash inside cleanData and the restart
NextCrash == startRetentionInfo \/ Env \/ Pass \/ CrashInCleanData

SpecCrash == Init /\ [][NextCrash]_vars


(***************************************************************************)
(* Properties.                                                             *)
(***************************************************************************)
\* key p of the topic is removed by the step, from any family or from DataKV
Evicted(t, p) ==
    \/ pageSize[t][p] # None /\ pageSize'[t][p] = None
    \/ p \in pageTs[t] /\ p \notin pageTs'[t]
    \/ p \in data[t] /\ p \notin data'[t]

\* no metadata key of page p of the topic is left
MetaGone(t, p) ==
    /\ pageSize[t][p] = None
    /\ p \notin pageTs[t]
    /\ ackedTs[t][p] = None

InCleanData == loopPc \in {"clean_lock", "clean_data", "clean_meta"}

\* C1 (ack-bounded eviction): a step removes page_msg_size/{t}/p,
\* page_ts/{t}/p or the DataKV key {t}/p only if acked_ts/{t}/p was present
\* when the pass in flight scanned the topic.
C1_AckBoundedEviction ==
    [][\A t \in Topics, p \in PageIDs : Evicted(t, p) => p \in scanAcked]_vars

\* C2 (atomic metadata delete): right after cleanData(topic, E) has returned
\* nil, the three metadata keys of every page p in 0..E are absent, and in
\* every state the page_msg_size and page_ts keys of a page are present
\* together and acked_ts is present only with them.
C2_AtomicMetadataDelete ==
    /\ (loopPc = "pass_ret" /\ cleaned) =>
           \A p \in PageIDs : p <= pageEndID => MetaGone(passTopic, p)
    /\ \A t \in Topics, p \in PageIDs :
           /\ (pageSize[t][p] # None) <=> (p \in pageTs[t])
           /\ ackedTs[t][p] # None => pageSize[t][p] # None

\* C3 (prefix monotonicity): no step removes the metadata of a page q while
\* it leaves a page p < q of the same topic in place.
C3_PrefixMonotonicity ==
    [][\A t \in Topics, p \in PageIDs, q \in PageIDs :
          (/\ p < q
           /\ pageSize[t][p] # None
           /\ pageSize[t][q] # None
           /\ pageSize'[t][q] = None) => pageSize'[t][p] = None]_vars

\* C4 (retry after failure): when expiredCleanUp has returned an error, the
\* step that ends the callback leaves the tracker entry of the topic as it
\* was.
C4_TrackerKeptOnError ==
    [][(loopPc = "pass_ret" /\ passErr /\ loopPc' = "range") =>
           tracker'[passTopic] = tracker[passTopic]]_vars


SomeStopReturned == \E s \in Stoppers : stopPc[s] = "returned"

\* C5 (join on stop): a Stop() call has returned only if the retention
\* goroutine has exited with no pass left half-way (no pass topic, no topic
\* mutex held), and once a Stop() call has returned no step is a step of the
\* loop: no tick is handled, the tracker and the compaction count stay, and
\* no key is removed from MetaKV or DataKV.
C5_JoinOnStop ==
    [][/\ (\E s \in Stoppers : stopPc'[s] = "returned") =>
              /\ loopPc' = "exited"
              /\ passTopic' = ""
              /\ \A t \in Topics : ~topicMu'[t]
       /\ SomeStopReturned =>
              /\ ~LoopStep
              /\ UNCHANGED <<loopPc, passVars, tracker, compactions>>
              /\ \A t \in Topics, p \in PageIDs : ~Evicted(t, p)]_vars

\* C5 witness: a Stop() call has returned after the loop exited, the loop
\* having handled a compaction tick and evicted the last page sealed.
C5_Witness ==
    /\ SomeStopReturned
    /\ loopPc = "exited"
    /\ compactions > 0
    /\ \E t \in Topics :
           lastPage[t] # None /\ pageSize[t][lastPage[t]] = None

\* C6 (once-only shutdown): closeCh is never closed a second time, and every
\* Stop() call that has returned, the first as the later ones, finds closeCh
\* closed, closeOnce done and the retention goroutine exited.
C6_OnceOnlyShutdown ==
    /\ closeCh <= 1
    /\ \A s \in Stoppers :
           stopPc[s] = "returned" =>
               closeCh = 1 /\ onceDone /\ closeWg = 0 /\ loopPc = "exited"

\* C6 witness: both Stop() calls have returned, closeCh closed once.
C6_Witness ==
    /\ \A s \in Stoppers : stopPc[s] = "returned"
    /\ closeCh = 1

\* the pageEndID a second expiredCleanUp of the topic would reach now
SecondPassEndID(t) ==
    LET total == calculateTopicAckedSize(pageSize[t], ackedTs[t], t)
    IN IF total = 0 THEN 0
       ELSE ExpiredScan(pageSize[t], ackedTs[t], t, now, total).pageEndID

\* C7 (idempotence): when expiredCleanUp has returned nil with no write and
\* no clock change since it began, a second expiredCleanUp run at once
\* returns before cleanData (its pageEndID is 0), so it changes no store.
C7_Idempotence ==
    (loopPc = "pass_ret" /\ ~passErr /\ undisturbed) =>
        SecondPassEndID(passTopic) = 0

\* C8 (policy disable): with RetentionTimeInMinutes < 0 and
\* RetentionSizeInMB < 0 expiredCleanUp marks no page and never reaches
\* cleanData.
C8_PolicyDisable ==
    (cfgRetMin < 0 /\ cfgRetSizeMB < 0) =>
        pageEndID = 0 /\ ~InCleanData /\ ~cleaned

\* the pages calculateTopicAckedSize adds up: those the iterator yields
\* from position i before the first one without acked_ts
RECURSIVE SummedFrom(_, _, _)
SummedFrom(ak, order, i) ==
    IF i > Len(order) THEN {}
    ELSE IF ak[order[i]] = None THEN {}
    ELSE {order[i]} \cup SummedFrom(ak, order, i + 1)

\* C9 (first unacked page bounds eviction): with u the numerically smallest
\* page of the topic without acked_ts, calculateTopicAckedSize adds up only
\* pages below u, the scans of expiredCleanUp end with pageEndID below u,
\* and the pass removes no page q >= u.
C9_FirstUnackedBounds ==
    [][/\ (loopPc = "calc" /\ loopPc' \in {"scan", "pass_ret"} /\ ~passErr') =>
              LET ps == pageSize[passTopic]
                  ak == ackedTs[passTopic]
                  u == FirstUnacked(ps, ak)
              IN u # None =>
                     \A p \in SummedFrom(ak, KeyOrder(passTopic, PagesOf(ps)), 1) :
                         p < u
       /\ (loopPc = "scan" /\ ~passErr' /\ scanU' # None) =>
              pageEndID' = 0 \/ pageEndID' < scanU'
       /\ \A t \in Topics, q \in PageIDs :
              (Evicted(t, q) /\ scanU # None) => q < scanU]_vars

\* C10 (crash recovery): after a crash inside cleanData(topic, E) between
\* the DataKV commit and the MetaKV commit and the restart, with no page
\* sealed since, a pass that selects a pageEndID >= E and whose cleanData
\* returns nil leaves neither data nor metadata keys for any page p <= E.
C10_CrashRecovery ==
    (crashE # None /\ loopPc = "pass_ret" /\ cleaned /\ pageEndID >= crashE) =>
        \A p \in PageIDs :
            p <= crashE => MetaGone(passTopic, p) /\ p \notin data[passTopic]

\* C11 (compaction tick): on a compaction tick, for each of DataKV and
\* MetaKV that is non-empty exactly one Compact is requested, with start nil,
\* force true and end the successor of the greatest key of the store, so that
\* every key of the store is below end; for an empty store none is requested.
C11_CompactionTick ==
    [][compactions' = compactions + 1 =>
           \A S \in {DataPairs, MetaPairs} :
               LET reqs == CompactRequests(S) IN
               IF S = {} THEN reqs = <<>>
               ELSE /\ Len(reqs) = 1
                    /\ reqs[1].start = <<>>
                    /\ reqs[1].force
                    /\ reqs[1].end = AddOne(LastPair(S)[1])
                    /\ \A x \in S : LexLess(x[1], reqs[1].end)]_vars

\* a producer or consumer write of topic t, made inside its critical section
WriterStep(t) ==
    \/ appends'[t] # appends[t]
    \/ \E p \in PageIDs : ackedTs[t][p] = None /\ ackedTs'[t][p] # None

\* C12 (stable topic locks): the mutex a holder has locked is the one the
\* registry holds for the topic, whatever runs meanwhile (initRetentionInfo
\* included), and no producer or consumer is inside its critical section of
\* a topic while cleanData is inside its own for that topic.
C12_StableTopicLocks ==
    [][/\ (cleanGen # None /\ cleanGen' # None) =>
              cleanGen' = lockGen'[passTopic']
       /\ \A t \in Topics : ~(WriterStep(t) /\ passTopic = t /\ InCleanData
                               /\ loopPc # "clean_lock")]_vars

\* C13 (tracker monotonicity): no step lowers the tracker entry of a topic,
\* whatever the sign of the recheck interval.
C13_TrackerMonotone ==
    [][\A t \in Topics : tracker'[t] >= tracker[t]]_vars

\* C13 witness: under a negative recheck interval the entry has advanced
\* past the first tick time.
C13_Witness ==
    \E t \in Topics : checkTime < 0 /\ tracker[t] > 1

\* C19 (recheck gating): the Range callback starts expiredCleanUp(topic)
\* exactly when lastCheckedTs + int64(minutes*60/10) < tick time; with a
\* window W >= 0 a topic cleaned at tick time l is cleaned again only at a
\* tick time more than W/10 later, and a topic is passed over only when its
\* entry is at most W/10 old.
C19_RecheckGating ==
    [][loopPc = "range" =>
           /\ loopPc' = "calc" =>
                  /\ tracker[passTopic'] + checkTime < timeNow
                  /\ cfgRetMin >= 0 =>
                         10 * MinuteDenom * (timeNow - tracker[passTopic'])
                             > cfgRetMin * 60
           /\ \A t \in rangeTodo \ rangeTodo' :
                  /\ ~(tracker[t] + checkTime < timeNow)
                  /\ cfgRetMin >= 0 =>
                         10 * MinuteDenom * (timeNow - tracker[t])
                             <= cfgRetMin * 60]_vars

\* C19 witness: under a positive recheck interval a topic cleaned at a
\* tick is reached again by the Range callback of a later tick.
C19_Witness ==
    /\ checkTime > 0
    /\ loopPc = "range"
    /\ \E t \in rangeTodo : tracker[t] > 0

\* the prefix of the scans of expiredCleanUp and calculateTopicAckedSize
ScanPrefix(name) == PageMsgSizeTitle \o name \o <<Slash>>

\* C14 (successor correctness): for every byte string s, AddOne(s) is above
\* every string that has s as a prefix and no string below AddOne(s) is
\* above all of them; and the scan from prefix up to AddOne(prefix) takes
\* exactly the keys that start with prefix.
C14_SuccessorCorrect ==
    succDone =>
        /\ \A x \in StringsUpTo(MaxLen + 1) :
               HasPrefix(x, succIn) => LexLess(x, succOut)
        /\ \A y \in StringsUpTo(MaxLen + 1) :
               (\A x \in StringsUpTo(MaxLen + 1) :
                    HasPrefix(x, succIn) => LexLess(x, y))
                   => ~LexLess(y, succOut)
        /\ \A name \in {<<97>>, <<97, 98>>}, other \in {<<97>>, <<97, 98>>},
              p \in PageIDs :
               LET k == PageMsgSizeTitle \o other \o <<Slash>> \o FormatInt(p)
               IN InRange(k, ScanPrefix(name), AddOne(ScanPrefix(name)))
                      <=> HasPrefix(k, ScanPrefix(name))

\* a step removes a DataKV key of the topic
DataDeleted(t) == \E p \in PageIDs : p \in data[t] /\ p \notin data'[t]

\* a step removes a MetaKV key of the topic
MetaDeleted(t) ==
    \E p \in PageIDs :
        \/ pageSize[t][p] # None /\ pageSize'[t][p] = None
        \/ p \in pageTs[t] /\ p \notin pageTs'[t]
        \/ ackedTs[t][p] # None /\ ackedTs'[t][p] = None

C16_SizeReachesQuota ==
    [][(loopPc = "scan" /\ loopPc' \in {"pass_ret", "clean_lock"}
        /\ ~passErr') =>
           LET ps == pageSize[passTopic]
               st == ExpiredScan(ps, ackedTs[passTopic], passTopic, now,
                                 totalAckedSize)
           IN (/\ cfgRetSizeMB >= 0
               /\ totalAckedSize > cfgRetSizeMB * MB
               /\ st.i <= Cardinality(PagesOf(ps))) =>
                  totalAckedSize - st.deletedAckedSize <= cfgRetSizeMB * MB]_vars

\* the maximal prefix, in pageID order, of the topic's pages that are acked
\* and time-expired at the clock
TimeExpiredPrefix(ps, ak, clock) ==
    {p \in PagesOf(ps) :
        \A q \in PagesOf(ps) :
            q <= p => ak[q] # None /\ msgTimeExpiredCheck(ak[q], clock)}

\* the sizes of the first n pages the iterator yields
RECURSIVE SizeOfFirst(_, _, _)
SizeOfFirst(ps, order, n) ==
    IF n = 0 THEN 0 ELSE SizeOfFirst(ps, order, n - 1) + ps[order[n]]

\* C17 (time eviction supersedes size eviction): with
\* RetentionTimeInMinutes >= 0 and any size quota, (a) the size loop starts
\* at the position where the time loop stopped and the pass has counted
\* each page before its final position exactly once, and (b) a pass that
\* reaches cleanData and commits, with no write and no clock change since
\* it began, leaves no page_msg_size key of the maximal prefix of acked,
\* time-expired pages.
C17_TimeSupersedesSize ==
    [][/\ (loopPc = "scan" /\ loopPc' \in {"pass_ret", "clean_lock"}
           /\ ~passErr' /\ cfgRetMin >= 0) =>
              LET ps == pageSize[passTopic]
                  order == KeyOrder(passTopic, PagesOf(ps))
                  start == [i |-> 1, pageEndID |-> 0, deletedAckedSize |-> 0,
                            pageCleaned |-> 0]
                  tp == TimePass(ps, ackedTs[passTopic], order, now, start)
                  st == ExpiredScan(ps, ackedTs[passTopic], passTopic, now,
                                    totalAckedSize)
              IN /\ tp.i <= st.i
                 /\ st.pageCleaned = st.i - 1
                 /\ st.deletedAckedSize = SizeOfFirst(ps, order, st.i - 1)
       /\ (loopPc = "clean_meta" /\ loopPc' = "pass_ret" /\ ~passErr'
           /\ undisturbed /\ cfgRetMin >= 0) =>
              \A p \in TimeExpiredPrefix(pageSize[passTopic],
                                         ackedTs[passTopic], now) :
                  pageSize'[passTopic][p] = None]_vars

\* the locals of an expiredCleanUp of the topic run on the present store at
\* the clock, when it reaches the test "pageEndID == 0"
PassLocals(t, clock) ==
    LET total == calculateTopicAckedSize(pageSize[t], ackedTs[t], t)
    IN IF total = 0
       THEN [i |-> 1, pageEndID |-> 0, deletedAckedSize |-> 0,
             pageCleaned |-> 0]
       ELSE ExpiredScan(pageSize[t], ackedTs[t], t, clock, total)

\* an expiredCleanUp of the topic at the clock calls cleanData with a range
\* that holds the keys of page 0
PassEvictsPageZero(t, clock) ==
    /\ PassLocals(t, clock).pageEndID # 0
    /\ MetaRangeHit(PageMsgSizeTitle, t, 0, PassLocals(t, clock).pageEndID)

\* C18 (page 0 is evicted on the next tick): when a pass has returned nil
\* without cleanData after marking page 0 and no other page, with no write
\* and no clock change since it began, the next pass of the topic, at the
\* same or any later clock, evicts page 0.
C18_PageZeroNextTick ==
    (/\ loopPc = "pass_ret" /\ ~passErr /\ ~cleaned /\ undisturbed
     /\ PassLocals(passTopic, now).pageCleaned = 1
     /\ PassLocals(passTopic, now).pageEndID = 0) =>
        \A c \in Times : c >= now => PassEvictsPageZero(passTopic, c)

\* the step is a return of cleanData with an error from the given position
CleanDataFails(pc) ==
    loopPc = pc /\ loopPc' = "pass_ret" /\ passErr'

\* C20 (no metadata loss on a failed clean): a return of cleanData with an
\* error from the registry lookup (no entry, or an entry that is not a
\* mutex) or from DeleteMessages commits no MetaKV batch and leaves every
\* page_msg_size, page_ts and acked_ts key as it was; a lookup error also
\* leaves DataKV as it was and names the topic.
C20_NoMetadataLoss ==
    [][/\ (CleanDataFails("clean_lock") \/ CleanDataFails("clean_data")) =>
              /\ pageSize' = pageSize
              /\ pageTs' = pageTs
              /\ ackedTs' = ackedTs
              /\ ~cleaned'
       /\ CleanDataFails("clean_lock") =>
              /\ data' = data
              /\ dataVal' = dataVal
              /\ errTopic' = passTopic]_vars

\* C20 witness: cleanData has returned the registry-lookup error for a
\* topic whose acked pages and DataKV keys the range deletes would have hit.
C20_Witness ==
    /\ loopPc = "pass_ret"
    /\ passErr
    /\ errTopic = passTopic
    /\ lockEntry[passTopic] # "mutex"
    /\ \E p \in PagesOf(pageSize[passTopic]) :
           /\ ackedTs[passTopic][p] # None
           /\ MetaRangeHit(PageMsgSizeTitle, passTopic, p, pageEndID)
    /\ \E id \in data[passTopic] : DataRangeHit(passTopic, id, 0, pageEndID)

\* the bytes of the pages in S, by their page_msg_size values
RECURSIVE SumOver(_, _)
SumOver(ps, S) ==
    IF S = {} THEN 0
    ELSE LET p == CHOOSE x \in S : TRUE
         IN ps[p] + SumOver(ps, S \ {p})

\* the bytes of the pages of the family that have an acked_ts key
AckedBytes(ps, ak) == SumOver(ps, {p \in PagesOf(ps) : ak[p] # None})

\* C23 (size eviction never over-evicts): with RetentionTimeInMinutes < 0
\* and RetentionSizeInMB = Q >= 0, (a) a pass that marked a page ends its
\* scan with totalAckedSize - deletedAckedSize > Q*MB, and a topic with
\* totalAckedSize <= Q*MB has no page marked, and (b) when the pass commits
\* its cleanData with no write and no clock change since it began, the
\* acked bytes left in MetaKV exceed Q*MB.
C23_NoOverEviction ==
    [][/\ (loopPc = "scan" /\ loopPc' \in {"pass_ret", "clean_lock"}
           /\ ~passErr' /\ cfgRetMin < 0 /\ cfgRetSizeMB >= 0) =>
              LET st == ExpiredScan(pageSize[passTopic], ackedTs[passTopic],
                                    passTopic, now, totalAckedSize)
              IN /\ st.pageCleaned >= 1 =>
                        totalAckedSize - st.deletedAckedSize
                            > cfgRetSizeMB * MB
                 /\ totalAckedSize <= cfgRetSizeMB * MB =>
                        st.pageCleaned = 0 /\ st.pageEndID = 0
       /\ (loopPc = "clean_meta" /\ loopPc' = "pass_ret" /\ ~passErr'
           /\ undisturbed /\ cfgRetMin < 0 /\ cfgRetSizeMB >= 0) =>
              AckedBytes(pageSize'[passTopic], ackedTs'[passTopic])
                  > cfgRetSizeMB * MB]_vars

\* C24 (bounded open iterators): whenever the retention loop is at its
\* select, no iterator it opened is still open.
C24_NoOpenIterators ==
    loopPc = "select" => openIters = 0

(***************************************************************************)
(* Shutdown under fair scheduling.  Every call of a pass terminates and    *)
(* the goroutines are scheduled: weak fairness of the steps of a pass and  *)
(* of the steps of a Stop() caller.  The select picks among its ready      *)
(* cases at random, so a case that is ready each time the loop comes back  *)
(* to the select is not passed over forever: strong fairness of the        *)
(* closeCh case.                                                           *)
(***************************************************************************)
\* a step of a Stop() caller past its call: closeOnce.Do and the return
StopStep == \E s \in Stoppers : StopEnterOnce(s) \/ StopReturn(s)

FairShutdown ==
    /\ WF_vars(Pass)
    /\ SF_vars(LoopExit)
    /\ WF_vars(StopStep)

\* both policies enabled, 0 minutes and 0 MB, and a producer of one page
InitLive ==
    /\ cfgRetMin = 0
    /\ cfgRetSizeMB = 0
    /\ sealLimit = MaxLiveAppends
    /\ pageLimit = MaxLivePageID
    /\ valueChoices = {DefaultValue}
    /\ topicMeta = [t \in Topics |-> DefaultValue]
    /\ InitProcess

SpecStopFair == InitLive /\ [][NextStop]_vars /\ FairShutdown

\* C22 (shutdown liveness): once closeCh is closed, eventually the retention
\* loop has returned, the Stop() call that closed it has returned (closeOnce
\* is done) and no Stop() call is left in progress.
C22_ShutdownLiveness ==
    (closeCh > 0) ~>
        (/\ loopPc = "exited"
         /\ onceDone
         /\ \A s \in Stoppers : stopPc[s] \in {"idle", "returned"})

\* C22 witness: the shutdown signal is raised while the loop is inside a
\* pass it took from the retention ticker.
C22_Witness ==
    /\ closeCh > 0
    /\ loopPc = "clean_data"
    /\ \E s \in Stoppers : stopPc[s] = "waiting"

\* C21 (topic independence): the calls made for one topic leave every DataKV
\* key and every MetaKV key (page_msg_size, page_ts, acked_ts, topic_id) of
\* a topic of another name in place, and their scans read no page of it.
C21_TopicIndependence ==
    callPc # "off" =>
        /\ dataU = OtherIDs
        /\ metaU = Titles \X OtherIDs
        /\ topicIdU
        /\ readU = {}

\* the step is a CreateJob call for key k
CreateJobStep(k) ==
    jobCalls' = jobCalls + 1 /\ jobCall' = <<"CreateJob", k>>

\* C25 (CreateJob leaves no orphan task): a CreateJob for a key that has
\* task info returns the duplicate error, enqueues nothing and changes no
\* info; a CreateJob for a key without task info that returns a non-success
\* status leaves no info for the key, so that QueryJobs reports
\* IndexStateNone for it.
C25_NoOrphanTask ==
    [][\A k \in TaskKeys :
           CreateJobStep(k) =>
               /\ taskInfos[k] # NoTask =>
                      /\ jobRet' = "BuildIndexError: duplicated index build task"
                      /\ buildQueue' = buildQueue
                      /\ taskInfos' = taskInfos
               /\ (taskInfos[k] = NoTask /\ jobRet' # "Success") =>
                      /\ taskInfos'[k] = NoTask
                      /\ QueryState(taskInfos', k) = "IndexStateNone"]_vars

=============================================================================
